---- MODULE Spec2Model ----
(***************************************************************************)
(* Bronze bot CI orchestrators: .github/bots/regular_bot.py (CLI main and  *)
(* BronzeBot), .github/bots/bronze_orchestrator.py (BronzeOrchestrator)    *)
(* and .github/bots/bronze-bot.py (detect_languages, health-check).        *)
(*                                                                         *)
(* Text is modelled as a sequence of string tokens: the empty string is    *)
(* <<>>, concatenation is \o, and an f-string is the sequence of its       *)
(* literal and interpolated parts.  A file of the workspace is a pair      *)
(* <<path without extension, extension>>, relative to the workspace root.  *)
(***************************************************************************)
EXTENDS Integers, Sequences, FiniteSets, TLC

VARIABLES
    prog,             \* which program runs: "regular_bot", "bronze_orchestrator", "bronze_bot"
    files,            \* entries of the workspace root
    args,             \* regular_bot: the parsed command-line flags
    pc,               \* position of the (single) thread of control
    idx,              \* number of commands of the current category / group already run
    child,            \* the child process being waited on, or NoChild
    all_passed,       \* regular_bot: check_format / lint's local all_passed
    overall_success,  \* regular_bot: main's overall_success
    results,          \* self.results
    local,            \* bronze_orchestrator: run_python_checks / run_dart_checks' local results
    returned,         \* last value returned by each category function / run_all_checks /
                      \* run_health_check
    exit_status,      \* process exit status: -1 while running
    languages,        \* what detect_languages returned last
    report,           \* bronze_orchestrator: last value of generate_report
    runs,             \* bronze_orchestrator: number of run_all_checks calls started
    log,              \* history: one record per run_command call
    faults            \* history: number of commands whose outcome was not the clean exit 0

vars == <<prog, files, args, pc, idx, child, all_passed, overall_success, results,
          local, returned, exit_status, languages, report, runs, log, faults>>

----------------------------------------------------------------------------
(* Bounds *)

\* commands of one behaviour that may end other than by a clean exit 0
MaxFaults == 1
\* run_all_checks calls on one BronzeOrchestrator object
MaxRuns == 2

----------------------------------------------------------------------------
(* The workspace *)

PyProject  == <<"pyproject", "toml">>
MainPy     == <<"main", "py">>
CMakeLists == <<"CMakeLists", "txt">>
ACpp       == <<"a", "cpp">>
BC         == <<"b", "c">>
CH         == <<"c", "h">>
PubSpec    == <<"pubspec", "yaml">>
PackageJson == <<"package", "json">>
TestsDir   == <<"tests", "">>

AllFiles == {PyProject, MainPy, CMakeLists, ACpp, BC, CH, PubSpec, PackageJson, TestsDir}

CiWorkflow == <<".github/workflows/bronze-ci", "yml">>
PreCommit  == <<".pre-commit-config", "yaml">>
GitIgnore  == <<".gitignore", "">>
Readme     == <<"README", "md">>

\* the files run_health_check probes
HealthFiles == {CiWorkflow, PreCommit, GitIgnore, Readme}

\* the workspaces a check run is started in: every detected language set occurs
Workspaces ==
    { {},
      {MainPy},
      {PyProject, TestsDir},
      {CH},
      {PubSpec},
      {PyProject, ACpp},
      {MainPy, PubSpec, TestsDir},
      {CMakeLists, PubSpec},
      {PyProject, CMakeLists, PubSpec, TestsDir} }

exists(fs, f) == f \in fs

glob(fs, ext) == {f \in fs : f[2] = ext}

\* regular_bot.BronzeBot.detect_languages
BotDetectLanguages(fs) ==
    [python |-> exists(fs, PyProject) \/ glob(fs, "py") /= {},
     cpp    |-> \/ exists(fs, CMakeLists)
                \/ glob(fs, "cpp") /= {}
                \/ glob(fs, "c") /= {}
                \/ glob(fs, "h") /= {},
     dart   |-> exists(fs, PubSpec)]

\* bronze_orchestrator.BronzeOrchestrator.detect_languages
OrchDetectLanguages(fs) ==
    [python |-> exists(fs, PyProject),
     dart   |-> exists(fs, PubSpec),
     cpp    |-> \/ exists(fs, CMakeLists)
                \/ \E f \in fs : f[2] \in {"cpp", "c", "h"}]

\* truth value of the generator object Path.glob returns: an object without
\* __bool__ / __len__ is true whatever it would yield
GeneratorTruthy(matches) == TRUE

\* bronze-bot.BronzeBot.detect_languages: the list of tags, in append order
BronzeBotDetectLanguages(fs) ==
    (IF exists(fs, PubSpec) THEN <<"dart">> ELSE <<>>)
    \o (IF exists(fs, PyProject) \/ glob(fs, "py") /= {} THEN <<"python">> ELSE <<>>)
    \o (IF exists(fs, PackageJson) THEN <<"javascript">> ELSE <<>>)
    \o (IF \/ exists(fs, CMakeLists)
           \/ \E ext \in {"cpp", "c", "h"} : GeneratorTruthy(glob(fs, ext))
        THEN <<"c/c++">> ELSE <<>>)

----------------------------------------------------------------------------
(* Child processes *)

NoChild == [kind |-> "none"]

\* what a launched command can do: exit with a code and output, never exit ("hang"),
\* or fail to launch ("missing": FileNotFoundError, "oserror": PermissionError)
Clean == [kind |-> "exit", code |-> 0, stdout |-> <<"ok">>, stderr |-> <<>>]

Outcomes ==
    { Clean,
      [kind |-> "exit", code |-> 0, stdout |-> <<>>, stderr |-> <<"warning">>],
      [kind |-> "exit", code |-> 1, stdout |-> <<"out">>, stderr |-> <<"err">>],
      [kind |-> "exit", code |-> 2, stdout |-> <<"diff">>, stderr |-> <<>>],
      [kind |-> "missing", code |-> 0, stdout |-> <<>>, stderr |-> <<>>],
      [kind |-> "oserror", code |-> 0, stdout |-> <<>>, stderr |-> <<>>],
      [kind |-> "hang", code |-> 0, stdout |-> <<>>, stderr |-> <<>>] }

\* str() of an exit code
IntStr(n) == CASE n = 0 -> "0" [] n = 1 -> "1" [] n = 2 -> "2" [] OTHER -> "?"

\* str(CalledProcessError): "Command '[...]' returned non-zero exit status N."
CalledProcessErrorStr(cmd, code) ==
    <<"Command '[">> \o cmd \o <<"]' returned non-zero exit status ", IntStr(code), ".">>

\* str(FileNotFoundError), str(PermissionError)
OSErrorStr(kind, cmd) ==
    IF kind = "missing"
    THEN <<"[Errno 2] No such file or directory: ", cmd[1]>>
    ELSE <<"[Errno 13] Permission denied: ", cmd[1]>>

----------------------------------------------------------------------------
(* regular_bot.py *)

\* subprocess.run is called without a timeout argument (timeout=None)
BotTimeout == <<>>

\* BotRunCommandEntry with an allowed failure recorded as a pass
BotRunCommandEntryAllowedPasses(cmd, name, allow_fail, o) ==
    IF o.kind = "missing"
    THEN <<name, FALSE, <<"Command not found: ", cmd[1]>> >>
    ELSE IF o.code /= 0 /\ ~allow_fail
         THEN <<name, FALSE, CalledProcessErrorStr(cmd, o.code)>>
         ELSE <<name, allow_fail \/ o.code = 0, o.stdout \o o.stderr>>

\* the tuple run_command appends to self.results for a command that exited (o.kind = "exit")
\* or whose executable is missing (o.kind = "missing")
BotRunCommandEntry(cmd, name, allow_fail, o) ==
    IF o.kind = "missing"
    THEN <<name, FALSE, <<"Command not found: ", cmd[1]>> >>
    ELSE IF o.code /= 0 /\ ~allow_fail
         \* check=not allow_fail: subprocess.run raises CalledProcessError
         THEN <<name, FALSE, CalledProcessErrorStr(cmd, o.code)>>
         ELSE <<name, o.code = 0, o.stdout \o o.stderr>>

\* BotRunCommandReturn returning True for a failure that allow_fail allows
BotRunCommandReturnAllowed(cmd, name, allow_fail, o) ==
    IF o.kind = "missing"
    THEN FALSE
    ELSE IF o.code /= 0
         THEN allow_fail
         ELSE TRUE

\* the value run_command returns in the same cases
BotRunCommandReturn(cmd, name, allow_fail, o) ==
    IF o.kind = "missing"
    THEN FALSE
    ELSE IF o.code /= 0 /\ ~allow_fail
         THEN (IF ~allow_fail THEN FALSE ELSE TRUE)
         ELSE o.code = 0

\* one run_command call of a category: gates says whether the category reads the
\* returned value ("if not self.run_command(...): all_passed = False")
Check(cmd, name, allow_fail, gates) ==
    [cmd |-> cmd, name |-> name, allow_fail |-> allow_fail, gates |-> gates]

FormatChecks(lang) ==
    (IF lang.python
     THEN <<Check(<<"black", "--check", ".">>, "Black format check", FALSE, TRUE)>>
     ELSE <<>>)
    \o (IF lang.cpp
        THEN <<Check(<<"clang-format", "--version">>, "clang-format version", TRUE, FALSE)>>
        ELSE <<>>)
    \o (IF lang.dart
        THEN <<Check(<<"dart", "format", "--set-exit-if-changed", ".">>,
                     "Dart format check", TRUE, FALSE)>>
        ELSE <<>>)

LintChecks(lang) ==
    (IF lang.python
     THEN <<Check(<<"ruff", "check", ".">>, "Ruff lint", TRUE, TRUE)>>
     ELSE <<>>)
    \o (IF lang.dart
        THEN <<Check(<<"flutter", "analyze">>, "Flutter analyze", TRUE, FALSE)>>
        ELSE <<>>)

SmokeChecks(lang) ==
    (IF lang.python
     THEN <<Check(<<"pytest", "-q", "-m", "smoke">>, "Python smoke tests", TRUE, FALSE)>>
     ELSE <<>>)
    \o (IF lang.dart
        THEN <<Check(<<"flutter", "test">>, "Flutter tests", TRUE, FALSE)>>
        ELSE <<>>)

\* main calling lint before check_format
BotCategoriesLintFirst == <<"lint", "check_format", "smoke_test">>

\* main: the order in which it calls the category functions
BotCategories == <<"check_format", "lint", "smoke_test">>

BotIsCategory(p) == \E k \in 1..Len(BotCategories) : BotCategories[k] = p

\* the commands category cat runs in a workspace: each category calls detect_languages itself
BotPlan(cat, fs) ==
    CASE cat = "check_format" -> FormatChecks(BotDetectLanguages(fs))
      [] cat = "lint"         -> LintChecks(BotDetectLanguages(fs))
      [] cat = "smoke_test"   -> SmokeChecks(BotDetectLanguages(fs))
      [] OTHER                -> <<>>

\* what the category function returns
BotCategoryResult(cat, allPassed) ==
    IF cat = "smoke_test" THEN TRUE ELSE allPassed

\* main: "if args.all or args.<category>"
Requested(a, cat) ==
    \/ a.all
    \/ cat = "check_format" /\ a.check_format
    \/ cat = "lint" /\ a.lint
    \/ cat = "smoke_test" /\ a.smoke_test

CategoryIndex(cat) == CHOOSE k \in 1..Len(BotCategories) : BotCategories[k] = cat

\* the first requested category after the k-th, or print_summary
BotNextPc(a, k) ==
    LET later == {j \in (k + 1)..Len(BotCategories) : Requested(a, BotCategories[j])}
    IN  IF later = {} THEN "print_summary"
        ELSE BotCategories[CHOOSE j \in later : \A i \in later : j <= i]

\* print_summary's return value: passed == total
print_summary(res) ==
    Cardinality({i \in 1..Len(res) : res[i][2]}) = Len(res)

ArgSets == [check_format : BOOLEAN, lint : BOOLEAN, smoke_test : BOOLEAN, all : BOOLEAN]

NoArgs == [check_format |-> FALSE, lint |-> FALSE, smoke_test |-> FALSE, all |-> FALSE]

LogEntry(cat, c, o, recorded, entry, ret) ==
    [run |-> runs, cat |-> cat, name |-> c.name, cmd |-> c.cmd, allow_fail |-> c.allow_fail,
     outcome |-> o, recorded |-> recorded, entry |-> entry, ret |-> ret]

\* the environment may make a command end other than by a clean exit 0 MaxFaults times
Budget(o) ==
    /\ o = Clean \/ faults < MaxFaults
    /\ faults' = IF o = Clean THEN faults ELSE faults + 1

\* main up to the first category: argument defaulting, detect_languages
BotMain ==
    /\ prog = "regular_bot" /\ pc = "main"
    /\ args' = IF ~(args.check_format \/ args.lint \/ args.smoke_test \/ args.all)
               THEN [args EXCEPT !.all = TRUE] ELSE args
    /\ languages' = BotDetectLanguages(files)
    /\ overall_success' = TRUE
    /\ all_passed' = TRUE
    /\ idx' = 0
    /\ pc' = BotNextPc(args', 0)
    /\ UNCHANGED <<prog, files, child, results, local, returned, exit_status, report,
                   runs, log, faults>>

\* run_command after subprocess.run returned or raised FileNotFoundError
BotRecord(c, o) ==
    LET entry == BotRunCommandEntry(c.cmd, c.name, c.allow_fail, o)
        ret   == BotRunCommandReturn(c.cmd, c.name, c.allow_fail, o)
    IN  /\ results' = Append(results, entry)
        /\ log' = Append(log, LogEntry(pc, c, o, TRUE, entry, ret))
        /\ all_passed' = IF c.gates /\ ~ret THEN FALSE ELSE all_passed
        /\ idx' = idx + 1
        /\ child' = NoChild

\* run_command: subprocess.run starts the child and waits for it
BotLaunch ==
    /\ prog = "regular_bot" /\ BotIsCategory(pc) /\ child = NoChild
    /\ idx < Len(BotPlan(pc, files))
    /\ \E o \in Outcomes :
          /\ o.kind \in {"exit", "hang"}
          /\ Budget(o)
          /\ child' = [kind |-> "running", check |-> BotPlan(pc, files)[idx + 1],
                       outcome |-> o, timeout |-> BotTimeout]
    /\ UNCHANGED <<prog, files, args, pc, idx, all_passed, overall_success, results,
                   local, returned, exit_status, languages, report, runs, log>>

\* run_command: the executable does not exist (except FileNotFoundError)
BotLaunchNotFound ==
    /\ prog = "regular_bot" /\ BotIsCategory(pc) /\ child = NoChild
    /\ idx < Len(BotPlan(pc, files))
    /\ \E o \in Outcomes :
          /\ o.kind = "missing"
          /\ Budget(o)
          /\ BotRecord(BotPlan(pc, files)[idx + 1], o)
    /\ UNCHANGED <<prog, files, args, pc, overall_success, local, returned, exit_status,
                   languages, report, runs>>

\* run_command: subprocess.run raises an OSError other than FileNotFoundError; no except
\* clause matches, the exception leaves main and the interpreter exits with a traceback
BotLaunchError ==
    /\ prog = "regular_bot" /\ BotIsCategory(pc) /\ child = NoChild
    /\ idx < Len(BotPlan(pc, files))
    /\ \E o \in Outcomes :
          /\ o.kind = "oserror"
          /\ Budget(o)
          /\ log' = Append(log, LogEntry(pc, BotPlan(pc, files)[idx + 1], o, FALSE, <<>>, FALSE))
    /\ pc' = "crashed"
    /\ exit_status' = 1
    /\ UNCHANGED <<prog, files, args, idx, child, all_passed, overall_success, results,
                   local, returned, languages, report, runs>>

\* run_command: the child exited and subprocess.run returns or raises CalledProcessError.
\* A child that never exits is waited for without limit.
BotWait ==
    /\ prog = "regular_bot" /\ child /= NoChild
    /\ child.outcome.kind = "exit"
    /\ BotRecord(child.check, child.outcome)
    /\ UNCHANGED <<prog, files, args, pc, overall_success, local, returned, exit_status,
                   languages, report, runs, faults>>

\* the category function returns and main folds its value into overall_success
BotReturn ==
    /\ prog = "regular_bot" /\ BotIsCategory(pc) /\ child = NoChild
    /\ idx = Len(BotPlan(pc, files))
    /\ LET value == BotCategoryResult(pc, all_passed)
       IN  /\ returned' = [returned EXCEPT ![pc] = <<value>>]
           /\ overall_success' = IF ~value THEN FALSE ELSE overall_success
    /\ pc' = BotNextPc(args, CategoryIndex(pc))
    /\ all_passed' = TRUE
    /\ idx' = 0
    /\ UNCHANGED <<prog, files, args, child, results, local, exit_status, languages,
                   report, runs, log, faults>>

\* print_summary and sys.exit
BotExit ==
    /\ prog = "regular_bot" /\ pc = "print_summary"
    /\ exit_status' = IF overall_success /\ print_summary(results) THEN 0 ELSE 1
    /\ pc' = "exited"
    /\ UNCHANGED <<prog, files, args, idx, child, all_passed, overall_success, results,
                   local, returned, languages, report, runs, log, faults>>

----------------------------------------------------------------------------
(* bronze_orchestrator.py *)

\* subprocess.run(..., timeout=300)
Timeout == 300

OrchTimeout == <<Timeout>>

CheckResult(name, passed, message, details) ==
    [name |-> name, passed |-> passed, message |-> message, details |-> details]

\* BronzeOrchestrator.run_command: the CheckResult it returns for each outcome of the
\* command; a child that never exits ends in TimeoutExpired
OrchRunCommand(cmd, check_name, o) ==
    CASE o.kind = "exit" /\ o.code = 0 ->
            CheckResult(check_name, TRUE, <<check_name, " passed">>, o.stdout)
      [] o.kind = "exit" /\ o.code /= 0 ->
            CheckResult(check_name, FALSE, <<check_name, " failed">>,
                        IF o.stderr /= <<>> THEN o.stderr ELSE o.stdout)
      [] o.kind = "hang" ->
            CheckResult(check_name, FALSE, <<check_name, " timed out">>,
                        <<"Command exceeded 5 minute timeout">>)
      [] OTHER ->
            CheckResult(check_name, FALSE, <<check_name, " error">>, OSErrorStr(o.kind, cmd))

\* run_python_checks: the run_command calls it makes
PythonChecks(fs) ==
    <<Check(<<"black", "--check", ".">>, "Python Black Format Check", FALSE, FALSE),
      Check(<<"ruff", "check", ".">>, "Python Ruff Lint Check", FALSE, FALSE)>>
    \o (IF exists(fs, TestsDir)
        THEN <<Check(<<"pytest", "-q", "-k", "smoke">>, "Python Smoke Tests", FALSE, FALSE)>>
        ELSE <<>>)

\* run_dart_checks: the run_command calls it makes
DartChecks(fs) ==
    <<Check(<<"flutter", "format", "--set-exit-if-changed", "--dry-run", ".">>,
            "Dart Format Check", FALSE, FALSE),
      Check(<<"flutter", "analyze">>, "Dart Analyze Check", FALSE, FALSE)>>

OrchIsGroup(p) == p \in {"run_python_checks", "run_dart_checks"}

OrchPlan(group, fs) ==
    CASE group = "run_python_checks" -> PythonChecks(fs)
      [] group = "run_dart_checks"   -> DartChecks(fs)
      [] OTHER                       -> <<>>

\* sum(1 for r in results if r.passed)
CountPassed(res) == Cardinality({i \in 1..Len(res) : res[i].passed})

\* sum(1 for r in results if not r.passed)
CountFailed(res) == Cardinality({i \in 1..Len(res) : ~res[i].passed})

\* generate_report counting as failed only the commands that ran and exited non-zero
generate_report_exit_failures_only(res) ==
    [total_checks |-> Len(res),
     passed |-> CountPassed(res),
     failed |-> Cardinality({i \in 1..Len(res) : res[i].message = <<res[i].name, " failed">>}),
     checks |-> [i \in 1..Len(res) |->
                    [name |-> res[i].name, passed |-> res[i].passed,
                     message |-> res[i].message, details |-> res[i].details]]]

\* BronzeOrchestrator.generate_report
generate_report(res) ==
    [total_checks |-> Len(res),
     passed |-> CountPassed(res),
     failed |-> CountFailed(res),
     checks |-> [i \in 1..Len(res) |->
                    [name |-> res[i].name, passed |-> res[i].passed,
                     message |-> res[i].message, details |-> res[i].details]]]

\* run_all_checks up to the first group: detect_languages
OrchRunAllChecks ==
    /\ prog = "bronze_orchestrator" /\ pc = "idle"
    /\ runs < MaxRuns
    /\ runs' = runs + 1
    /\ languages' = OrchDetectLanguages(files)
    /\ pc' = IF languages'.python THEN "run_python_checks"
             ELSE IF languages'.dart THEN "run_dart_checks"
             ELSE "summary"
    /\ local' = <<>>
    /\ idx' = 0
    /\ UNCHANGED <<prog, files, args, child, all_passed, overall_success, results,
                   returned, exit_status, report, log, faults>>

\* run_command returned a CheckResult, which the group appends to its local list
OrchRecord(c, o) ==
    LET r == OrchRunCommand(c.cmd, c.name, o)
    IN  /\ local' = Append(local, r)
        /\ log' = Append(log, LogEntry(pc, c, o, TRUE, r, r.passed))
        /\ idx' = idx + 1
        /\ child' = NoChild

\* run_command: subprocess.run starts the child and waits for it, 300 seconds at most
OrchLaunch ==
    /\ prog = "bronze_orchestrator" /\ OrchIsGroup(pc) /\ child = NoChild
    /\ idx < Len(OrchPlan(pc, files))
    /\ \E o \in Outcomes :
          /\ o.kind \in {"exit", "hang"}
          /\ Budget(o)
          /\ child' = [kind |-> "running", check |-> OrchPlan(pc, files)[idx + 1],
                       outcome |-> o, timeout |-> OrchTimeout]
    /\ UNCHANGED <<prog, files, args, pc, idx, all_passed, overall_success, results,
                   local, returned, exit_status, languages, report, runs, log>>

\* run_command: subprocess.run raises while launching (except Exception)
OrchLaunchError ==
    /\ prog = "bronze_orchestrator" /\ OrchIsGroup(pc) /\ child = NoChild
    /\ idx < Len(OrchPlan(pc, files))
    /\ \E o \in Outcomes :
          /\ o.kind \in {"missing", "oserror"}
          /\ Budget(o)
          /\ OrchRecord(OrchPlan(pc, files)[idx + 1], o)
    /\ UNCHANGED <<prog, files, args, pc, all_passed, overall_success, results,
                   returned, exit_status, languages, report, runs>>

\* run_command: the child exited, or the timeout expired (except TimeoutExpired)
OrchWait ==
    /\ prog = "bronze_orchestrator" /\ child /= NoChild
    /\ child.outcome.kind = "exit" \/ child.timeout /= <<>>
    /\ OrchRecord(child.check, child.outcome)
    /\ UNCHANGED <<prog, files, args, pc, all_passed, overall_success, results,
                   returned, exit_status, languages, report, runs, faults>>

\* run_python_checks / run_dart_checks returns: self.results.extend(...)
OrchExtend ==
    /\ prog = "bronze_orchestrator" /\ OrchIsGroup(pc) /\ child = NoChild
    /\ idx = Len(OrchPlan(pc, files))
    /\ results' = results \o local
    /\ local' = <<>>
    /\ idx' = 0
    /\ pc' = IF pc = "run_python_checks" /\ languages.dart THEN "run_dart_checks"
             ELSE "summary"
    /\ UNCHANGED <<prog, files, args, child, all_passed, overall_success, returned,
                   exit_status, languages, report, runs, log, faults>>

\* run_all_checks: the summary and "return failed == 0"
OrchSummary ==
    /\ prog = "bronze_orchestrator" /\ pc = "summary"
    /\ returned' = <<CountFailed(results) = 0>>
    /\ pc' = "idle"
    /\ UNCHANGED <<prog, files, args, idx, child, all_passed, overall_success, results,
                   local, exit_status, languages, report, runs, log, faults>>

\* generate_report called on the object between runs
OrchGenerateReport ==
    /\ prog = "bronze_orchestrator" /\ pc = "idle"
    /\ report' = generate_report(results)
    /\ UNCHANGED <<prog, files, args, pc, idx, child, all_passed, overall_success,
                   results, local, returned, exit_status, languages, runs, log, faults>>

\* main after its run_all_checks call: the report is written and the process exits
OrchExit ==
    /\ prog = "bronze_orchestrator" /\ pc = "idle"
    /\ runs = 1 /\ returned /= <<>>
    /\ report' = generate_report(results)
    /\ exit_status' = IF returned[1] THEN 0 ELSE 1
    /\ pc' = "exited"
    /\ UNCHANGED <<prog, files, args, idx, child, all_passed, overall_success, results,
                   local, returned, languages, runs, log, faults>>

----------------------------------------------------------------------------
(* bronze-bot.py *)

BronzeBotCommands == {"status", "detect-languages", "health-check"}

\* BronzeBot.run_health_check
run_health_check(fs) ==
    [has_ci        |-> exists(fs, CiWorkflow),
     has_precommit |-> exists(fs, PreCommit),
     has_gitignore |-> exists(fs, GitIgnore),
     has_readme    |-> exists(fs, Readme)]

\* HealthExitStatus with any() in place of all()
HealthExitStatusAny(health) ==
    IF \E k \in DOMAIN health : health[k] THEN 0 ELSE 1

\* main: sys.exit(0 if all(health.values()) else 1)
HealthExitStatus(health) ==
    IF \A k \in DOMAIN health : health[k] THEN 0 ELSE 1

\* main: "status" (print_status) and "detect-languages" both call detect_languages and
\* fall off the end of main
BronzeBotMain ==
    /\ prog = "bronze_bot" /\ pc = "main"
    /\ args.command \in {"status", "detect-languages"}
    /\ languages' = BronzeBotDetectLanguages(files)
    /\ exit_status' = 0
    /\ pc' = "exited"
    /\ UNCHANGED <<prog, files, args, idx, child, all_passed, overall_success, results,
                   local, returned, report, runs, log, faults>>

\* main: "health-check" prints run_health_check's dict as JSON and exits
BronzeBotHealthCheck ==
    /\ prog = "bronze_bot" /\ pc = "main"
    /\ args.command = "health-check"
    /\ returned' = <<run_health_check(files)>>
    /\ exit_status' = HealthExitStatus(run_health_check(files))
    /\ pc' = "exited"
    /\ UNCHANGED <<prog, files, args, idx, child, all_passed, overall_success, results,
                   local, languages, report, runs, log, faults>>

----------------------------------------------------------------------------
(* Specification *)

Programs == {"regular_bot", "bronze_orchestrator", "bronze_bot"}

NoReport == [total_checks |-> 0, passed |-> 0, failed |-> 0, checks |-> <<>>]

Init ==
    /\ prog \in Programs
    /\ files \in (IF prog = "bronze_bot" THEN SUBSET (AllFiles \cup HealthFiles) ELSE Workspaces)
    /\ args \in (CASE prog = "regular_bot" -> ArgSets
                   [] prog = "bronze_bot" -> [command : BronzeBotCommands]
                   [] OTHER -> {NoArgs})
    /\ pc = IF prog = "bronze_orchestrator" THEN "idle" ELSE "main"
    /\ idx = 0
    /\ child = NoChild
    /\ all_passed = TRUE
    /\ overall_success = TRUE
    /\ results = <<>>
    /\ local = <<>>
    /\ returned = IF prog = "regular_bot"
                  THEN [c \in {"check_format", "lint", "smoke_test"} |-> <<>>]
                  ELSE <<>>
    /\ exit_status = -1
    /\ languages = <<>>
    /\ report = NoReport
    /\ runs = 0
    /\ log = <<>>
    /\ faults = 0

Next ==
    \/ BotMain
    \/ BotLaunch
    \/ BotLaunchNotFound
    \/ BotLaunchError
    \/ BotWait
    \/ BotReturn
    \/ BotExit
    \/ OrchRunAllChecks
    \/ OrchLaunch
    \/ OrchLaunchError
    \/ OrchWait
    \/ OrchExtend
    \/ OrchSummary
    \/ OrchGenerateReport
    \/ OrchExit
    \/ BronzeBotMain
    \/ BronzeBotHealthCheck

Spec == Init /\ [][Next]_vars

----------------------------------------------------------------------------
(* Properties *)

LogIdx == 1..Len(log)

\* the passed flag and the message of a recorded result, for either runner
Passed(e) == IF prog = "regular_bot" THEN e.entry[2] ELSE e.entry.passed

Message(e) == IF prog = "regular_bot" THEN e.entry[3] ELSE e.entry.message

FailureKind(o) ==
    CASE o.kind = "missing" -> "missing"
      [] o.kind = "hang" -> "timeout"
      [] o.kind = "exit" /\ o.code /= 0 -> "nonzero"
      [] OTHER -> "other"

\* C1: when regular_bot's main has exited, the exit status is 0 exactly when no check
\* outside the smoke category that was invoked without allow_fail has a failed result
C1_ExitZeroIffNoGatingFailure ==
    (prog = "regular_bot" /\ pc = "exited") =>
        (exit_status = 0 <=>
            \A i \in LogIdx :
                (log[i].cat /= "smoke_test" /\ ~log[i].allow_fail) => Passed(log[i]))

\* C2: once check_format or lint has returned, it returned False exactly when a check of
\* that category invoked without allow_fail has a failed result
C2_CategoryFailsIffGatingCheckFailed ==
    prog = "regular_bot" =>
        \A cat \in {"check_format", "lint"} :
            returned[cat] /= <<>> =>
                (~returned[cat][1] <=>
                    \E i \in LogIdx :
                        log[i].cat = cat /\ ~log[i].allow_fail /\ ~Passed(log[i]))

\* C3: every entry regular_bot's run_command appended equals the entry it appends for the
\* same command and process outcome with allow_fail flipped
C3_EntryIndependentOfAllowFail ==
    prog = "regular_bot" =>
        \A i \in LogIdx :
            log[i].recorded =>
                log[i].entry =
                    BotRunCommandEntry(log[i].cmd, log[i].name, ~log[i].allow_fail,
                                       log[i].outcome)

\* C4: a wait on a child process that never exits carries the explicit 300 second
\* timeout and can return
C4_WaitBoundedByTimeout ==
    (child /= NoChild /\ child.outcome.kind = "hang") =>
        (child.timeout = <<Timeout>> /\ ENABLED Next)

\* the run_command calls a finished run must have made, in order
ExpectedCalls ==
    IF prog = "regular_bot"
    THEN (IF Requested(args, "check_format") THEN BotPlan("check_format", files) ELSE <<>>)
         \o (IF Requested(args, "lint") THEN BotPlan("lint", files) ELSE <<>>)
         \o (IF Requested(args, "smoke_test") THEN BotPlan("smoke_test", files) ELSE <<>>)
    ELSE (IF exists(files, PyProject) THEN PythonChecks(files) ELSE <<>>)
         \o (IF exists(files, PubSpec) THEN DartChecks(files) ELSE <<>>)

\* C5: a run of either orchestrator that has ended ended by sys.exit with status 0 or 1,
\* after invoking every applicable command of every requested category and recording
\* exactly one result for each
C5_NoOutcomeAbortsRun ==
    (prog \in {"regular_bot", "bronze_orchestrator"} /\ pc \in {"exited", "crashed"}) =>
        /\ pc = "exited"
        /\ exit_status \in {0, 1}
        /\ Len(log) = Len(ExpectedCalls)
        /\ \A i \in LogIdx : log[i].name = ExpectedCalls[i].name /\ log[i].recorded
        /\ Len(results) = Len(log)
        /\ \A i \in LogIdx : results[i] = log[i].entry

ContainsTimedOut(msg) == \E k \in 1..Len(msg) : msg[k] = " timed out"

\* C6: every recorded result of a missing executable, a timeout or a non-zero exit has
\* passed = false; a missing executable's message is 'Command not found: <argv[0]>', a
\* timeout's contains 'timed out', and two results of one check name with different
\* failure kinds have different messages
C6_FailureKindsDistinguishable ==
    /\ \A i \in LogIdx :
          (log[i].recorded /\ FailureKind(log[i].outcome) /= "other") =>
              /\ ~Passed(log[i])
              /\ FailureKind(log[i].outcome) = "missing" =>
                    Message(log[i]) = <<"Command not found: ", log[i].cmd[1]>>
              /\ FailureKind(log[i].outcome) = "timeout" =>
                    ContainsTimedOut(Message(log[i]))
    /\ \A i, j \in LogIdx :
          (/\ log[i].recorded /\ log[j].recorded
           /\ log[i].name = log[j].name
           /\ FailureKind(log[i].outcome) /= "other"
           /\ FailureKind(log[j].outcome) /= "other"
           /\ FailureKind(log[i].outcome) /= FailureKind(log[j].outcome)) =>
              Message(log[i]) /= Message(log[j])

ReportConsistent(r) ==
    /\ r.total_checks = r.passed + r.failed
    /\ r.total_checks = Len(r.checks)

\* C7: in every state of a BronzeOrchestrator the report generate_report returns, and the
\* last report it returned, have total_checks = passed + failed = length(checks), 0/0/0
\* for no results; between runs checks are the recorded results, all of them, in order
C7_ReportCounts ==
    prog = "bronze_orchestrator" =>
        /\ ReportConsistent(generate_report(results))
        /\ ReportConsistent(report)
        /\ results = <<>> =>
              /\ generate_report(results).total_checks = 0
              /\ generate_report(results).passed = 0
              /\ generate_report(results).failed = 0
        /\ pc \in {"idle", "exited"} =>
              /\ Len(generate_report(results).checks) = Len(log)
              /\ \A i \in LogIdx : generate_report(results).checks[i] = log[i].entry

C7_Witness ==
    /\ prog = "bronze_orchestrator" /\ pc = "idle" /\ runs = 2
    /\ report = generate_report(results)
    /\ report.passed >= 2 /\ report.failed >= 1

\* what the workspace's markers say about an ecosystem
MarkerPresent(fs, tag) ==
    CASE tag = "python" -> PyProject \in fs \/ \E f \in fs : f[2] = "py"
      [] tag = "cpp" -> CMakeLists \in fs \/ \E f \in fs : f[2] \in {"cpp", "c", "h"}
      [] tag = "dart" -> PubSpec \in fs
      [] tag = "javascript" -> PackageJson \in fs
      [] OTHER -> FALSE

Detected ==
    \/ prog = "regular_bot" /\ pc /= "main"
    \/ prog = "bronze_orchestrator" /\ runs > 0
    \/ prog = "bronze_bot" /\ pc = "exited"

\* C8: what each detect_languages returned has an ecosystem's tag exactly when one of
\* that ecosystem's markers is in the workspace root
C8_DetectMatchesMarkers ==
    Detected =>
        IF prog = "bronze_bot"
        THEN LET tags == {languages[k] : k \in 1..Len(languages)}
             IN  /\ "dart" \in tags <=> MarkerPresent(files, "dart")
                 /\ "python" \in tags <=> MarkerPresent(files, "python")
                 /\ "javascript" \in tags <=> MarkerPresent(files, "javascript")
                 /\ "c/c++" \in tags <=> MarkerPresent(files, "cpp")
        ELSE /\ languages.python <=> MarkerPresent(files, "python")
             /\ languages.cpp <=> MarkerPresent(files, "cpp")
             /\ languages.dart <=> MarkerPresent(files, "dart")

\* C9: for either runner, a command that exited has a recorded result whose passed flag
\* is true exactly when the exit code is 0
C9_PassedIffExitZero ==
    \A i \in LogIdx :
        log[i].outcome.kind = "exit" =>
            /\ log[i].recorded
            /\ Passed(log[i]) <=> log[i].outcome.code = 0

C9_Witness ==
    /\ prog = "regular_bot" /\ pc = "exited"
    /\ \E i, j \in LogIdx :
          /\ log[i].outcome.kind = "exit" /\ log[i].outcome.code = 0 /\ Passed(log[i])
          /\ log[j].outcome.kind = "exit" /\ log[j].outcome.code /= 0
          /\ log[j].allow_fail /\ log[j].outcome.stdout /= <<>> /\ ~Passed(log[j])

\* the results of the run_command calls of run number n, in call order
RunEntries(n) ==
    LET Sel[k \in 0..Len(log)] ==
            IF k = 0 THEN <<>>
            ELSE IF log[k].run = n THEN Append(Sel[k - 1], log[k].entry) ELSE Sel[k - 1]
    IN  Sel[Len(log)]

\* C10: between runs of a BronzeOrchestrator, generate_report holds exactly the results of
\* the latest run_all_checks call, and that call returned whether none of them failed
C10_ReportOfLatestRunOnly ==
    (prog = "bronze_orchestrator" /\ pc = "idle" /\ runs >= 1) =>
        /\ generate_report(results).checks = RunEntries(runs)
        /\ returned = << \A k \in 1..Len(RunEntries(runs)) : RunEntries(runs)[k].passed >>

\* format < lint < smoke
CategoryRank(cat) ==
    CASE cat \in {"check_format", "format"} -> 1
      [] cat = "lint" -> 2
      [] OTHER -> 3

\* the category of a check of bronze_orchestrator, which run_python_checks and
\* run_dart_checks name in their comments
OrchCategory(name) ==
    CASE name \in {"Python Black Format Check", "Dart Format Check"} -> "format"
      [] name \in {"Python Ruff Lint Check", "Dart Analyze Check"} -> "lint"
      [] OTHER -> "smoke"

\* python < cpp < dart
EcosystemRank(name) ==
    CASE name \in {"Black format check", "Ruff lint", "Python smoke tests"} -> 1
      [] name = "clang-format version" -> 2
      [] OTHER -> 3

GroupRank(group) == IF group = "run_python_checks" THEN 1 ELSE 2

\* the recorded results are the results of the run_command calls, in call order
ResultsInCallOrder ==
    /\ Len(results) = Cardinality({i \in LogIdx : log[i].recorded})
    /\ \A i \in 1..Len(results) : results[i] = log[i].entry

\* C11 as stated: for both orchestrators the results of a run are in call order and every
\* format result precedes every lint result, which precedes every smoke result
C11_CategoryOrderBothRunners ==
    (\/ prog = "regular_bot"
     \/ prog = "bronze_orchestrator" /\ pc \in {"idle", "exited"}) =>
        /\ ResultsInCallOrder
        /\ \A i, j \in LogIdx :
              (i < j /\ log[i].run = log[j].run) =>
                  IF prog = "regular_bot"
                  THEN CategoryRank(log[i].cat) <= CategoryRank(log[j].cat)
                  ELSE CategoryRank(OrchCategory(log[i].name))
                          <= CategoryRank(OrchCategory(log[j].name))

\* C11 amended: the results are in call order; in regular_bot the format results precede
\* the lint results, which precede the smoke results, each category in the order python,
\* cpp, dart; in bronze_orchestrator the results of one run_all_checks call are grouped by
\* ecosystem, python before dart, each group in the order format, lint, smoke
C11_ResultsInInvocationOrder ==
    /\ prog = "regular_bot" =>
          /\ ResultsInCallOrder
          /\ \A i, j \in LogIdx :
                i < j =>
                    /\ CategoryRank(log[i].cat) <= CategoryRank(log[j].cat)
                    /\ log[i].cat = log[j].cat =>
                          EcosystemRank(log[i].name) < EcosystemRank(log[j].name)
    /\ (prog = "bronze_orchestrator" /\ pc \in {"idle", "exited"}) =>
          /\ ResultsInCallOrder
          /\ \A i, j \in LogIdx :
                i < j =>
                    /\ log[i].run <= log[j].run
                    /\ log[i].run = log[j].run =>
                          /\ GroupRank(log[i].cat) <= GroupRank(log[j].cat)
                          /\ log[i].cat = log[j].cat =>
                                CategoryRank(OrchCategory(log[i].name))
                                   < CategoryRank(OrchCategory(log[j].name))

C11_Witness ==
    /\ prog = "regular_bot" /\ pc = "exited" /\ args.all
    /\ Len(results) = 7
    /\ \E i \in LogIdx : log[i].outcome /= Clean

HealthKeys == {"has_ci", "has_precommit", "has_gitignore", "has_readme"}

\* C12: bronze-bot.py health-check exits with status 0 when bronze-ci.yml,
\* .pre-commit-config.yaml, .gitignore and README.md all exist and with status 1
\* otherwise, and the dict it prints has exactly the four has_* keys, each telling
\* whether its file exists
C12_HealthCheckExitStatus ==
    (prog = "bronze_bot" /\ pc = "exited" /\ args.command = "health-check") =>
        /\ exit_status = 0 <=> HealthFiles \subseteq files
        /\ exit_status /= 0 => exit_status = 1
        /\ DOMAIN returned[1] = HealthKeys
        /\ returned[1].has_ci <=> CiWorkflow \in files
        /\ returned[1].has_precommit <=> PreCommit \in files
        /\ returned[1].has_gitignore <=> GitIgnore \in files
        /\ returned[1].has_readme <=> Readme \in files

C12_Witness ==
    /\ prog = "bronze_bot" /\ pc = "exited" /\ args.command = "health-check"
    /\ exit_status = 1
    /\ Cardinality(HealthFiles \cap files) = 3

====
